---- MODULE Spec2Model ----
(***************************************************************************)
(* The guide "Customizing Saving and Serialization": its four example      *)
(* cells (custom variables, custom assets, custom build config, custom     *)
(* compile config), each run as  construct .. save .. load_model, with the *)
(* hooks the cells override translated from their Python bodies and the    *)
(* hooks they inherit translated from the guide's description of the       *)
(* defaults.                                                               *)
(***************************************************************************)
EXTENDS Integers, Sequences, FiniteSets, TLC

VARIABLES cell, pc, orig, rest, archive, stage, err

vars == <<cell, pc, orig, rest, archive, stage, err>>

(* Largest abstract tensor value; tensors are abstracted to 0..MaxVal. *)
MaxVal == 1

Vals == 0..MaxVal

-----------------------------------------------------------------------------
(* Python dictionaries: functions whose DOMAIN is the set of keys present. *)

EmptyDict == [k \in {} |-> 0]

Put(d, k, v) == [x \in (DOMAIN d) \cup {k} |-> IF x = k THEN v ELSE d[x]]

Update(d, e) ==
  [x \in (DOMAIN d) \cup (DOMAIN e) |-> IF x \in DOMAIN e THEN e[x] ELSE d[x]]

(* Python strings that the code takes apart or builds are character tuples. *)
Digits == <<"0", "1", "2", "3", "4", "5", "6", "7", "8", "9">>

(* f"{i}" for a non-negative int: its decimal digits, most significant first. *)
RECURSIVE FormatInt(_)
FormatInt(i) ==
  IF i < 10 THEN <<Digits[i + 1]>>
  ELSE FormatInt(i \div 10) \o <<Digits[(i % 10) + 1]>>

KeyVariables == <<"v", "a", "r", "i", "a", "b", "l", "e", "s">>

Unk == <<"<", "u", "n", "k", ">">>

Little == <<"l", "i", "t", "t", "l", "e">>

VocabularyTxt == <<"vocabulary.txt">>

(* str.replace(old, new): leftmost non-overlapping occurrences, one pass. *)
RECURSIVE str_replace(_, _, _)
str_replace(text, old, new) ==
  IF Len(text) < Len(old) THEN text
  ELSE IF SubSeq(text, 1, Len(old)) = old
       THEN new \o str_replace(SubSeq(text, Len(old) + 1, Len(text)), old, new)
       ELSE <<text[1]>> \o str_replace(Tail(text), old, new)

(* os.path.join(inner_path, name): paths are tuples of components. *)
path_join(inner_path, name) == inner_path \o name

(* The line feed and carriage return characters. *)
LF == "\n"

CR == "\r"

(* os.linesep: "\n" on POSIX, "\r\n" on Windows. *)
LineSeps == {<<LF>>, <<CR, LF>>}

(* open(path, "w").write(text): text mode with newline=None writes every   *)
(* "\n" as os.linesep and everything else as it is.                        *)
file_write(text, linesep) == str_replace(text, <<LF>>, linesep)

(* open(path, "r").read(): text mode with newline=None returns "\r\n" and  *)
(* a lone "\r" as "\n" (universal newlines).                               *)
file_read(data) == str_replace(str_replace(data, <<CR, LF>>, <<LF>>), <<CR>>, <<LF>>)

-----------------------------------------------------------------------------
(* The cells, their objects and the classes of the objects. *)

Cells == {"custom_vars", "custom_assets", "custom_build", "custom_compile"}

AllObjs == {"model", "layer0", "layer1"}

Objs(c) ==
  IF c \in {"custom_vars", "custom_assets"} THEN {"model", "layer0"} ELSE AllObjs

Class(c, o) ==
  IF o = "model"
  THEN (IF c = "custom_compile" THEN "ModelWithCustomCompile" ELSE "Sequential")
  ELSE IF c = "custom_vars" /\ o = "layer0" THEN "LayerWithCustomVariables"
  ELSE IF c = "custom_assets" /\ o = "layer0" THEN "LayerWithCustomAssets"
  ELSE IF c = "custom_build" /\ o = "layer0" THEN "LayerWithCustomBuild"
  ELSE "Dense"

IsModel(o) == o = "model"

(* The weight lists a Dense-derived layer creates when built: <<number of  *)
(* trainable weights, number of non-trainable weights>>.  The lists belong *)
(* to the base class, so their lengths are an input of the model.          *)
WeightCounts == {<<1, 0>>, <<2, 0>>, <<1, 1>>, <<2, 1>>}

DenseCounts == <<2, 0>>

NoCounts == <<0, 0>>

(* The vocab strings tried, the guide's own first. *)
MaryUnk ==
  <<"M", "a", "r", "y", " ", "h", "a", "d", " ", "a", " ",
    "<", "u", "n", "k", ">", " ", "l", "a", "m", "b", ".">>

MaryLittle ==
  <<"M", "a", "r", "y", " ", "h", "a", "d", " ", "a", " ",
    "l", "i", "t", "t", "l", "e", " ", "l", "a", "m", "b", ".">>

VocabInputs ==
  { MaryUnk,
    <<>>,
    Unk,
    Little,
    <<"<", "u", "n", "k", ">", "<", "u", "n", "k", ">">>,
    <<"<", "<", "u", "n", "k", ">", ">">>,
    <<"<", "u", "n", "<", "u", "n", "k", ">", "k", ">">>,
    <<"a", "<", "u", "n", "k">>,
    <<"a", LF, "<", "u", "n", "k", ">">>,
    <<"a", CR, LF, "b">>,
    <<"a", CR, "b">> }

(* vocab=None, the constructor's default: no character tuple. *)
NoneVocab == <<"None">>

InitializerNames == {"random_normal", "zeros", "ones"}

InputShapes == {<<8>>, <<4>>}

-----------------------------------------------------------------------------
(* Values of the compile configuration and their (de)serialization.        *)

PlainStr(s) == [kind |-> "str", pkg |-> "", val |-> s, items |-> <<>>]

Fn(name) == [kind |-> "function", pkg |-> "", val |-> name, items |-> <<>>]

List(xs) == [kind |-> "list", pkg |-> "", val |-> "", items |-> xs]

(* @register_keras_serializable(package="my_custom_package") *)
Registered == {"small_square_sum_loss", "mean_pred"}

RegisteredPackage == "my_custom_package"

RECURSIVE serialize_keras_object(_)
serialize_keras_object(x) ==
  IF x.kind = "function"
    THEN [kind |-> "config", pkg |-> RegisteredPackage, val |-> x.val,
          items |-> <<>>]
  ELSE IF x.kind = "list"
    THEN List([i \in 1..Len(x.items) |-> serialize_keras_object(x.items[i])])
  ELSE x

RECURSIVE deserialize_keras_object(_)
deserialize_keras_object(c) ==
  IF c.kind = "config"
    THEN (IF c.pkg = RegisteredPackage /\ c.val \in Registered
          THEN Fn(c.val)
          ELSE c)
  ELSE IF c.kind = "list"
    THEN List([i \in 1..Len(c.items) |-> deserialize_keras_object(c.items[i])])
  ELSE c

serialize_dict(d) == [k \in DOMAIN d |-> serialize_keras_object(d[k])]

Optimizers == {PlainStr("SGD"), PlainStr("adam")}

Losses == {Fn("small_square_sum_loss"), Fn("mean_pred")}

MetricLists ==
  { List(<<PlainStr("accuracy"), Fn("mean_pred")>>),
    List(<<Fn("mean_pred")>>),
    List(<<>>) }

-----------------------------------------------------------------------------
(* An object (layer or model): its built flag, its two weight lists, its   *)
(* Python attributes (a dictionary: reading a missing one raises           *)
(* AttributeError) and the methods run on it so far, in order.             *)

NewObject(counts, attrs) ==
  [built |-> FALSE, counts |-> counts, tw |-> <<>>, ntw |-> <<>>,
   attrs |-> attrs, hist |-> <<>>]

Absent == NewObject(NoCounts, EmptyDict)

Has(self, name) == name \in DOMAIN self.attrs

Ran(self, method) == [self EXCEPT !.hist = Append(@, method)]

(* Lists of weights hold references: <<"t", i>> is _trainable_weights[i],   *)
(* <<"n", j>> is _non_trainable_weights[j].                                 *)
TrainableRefs(self) == [i \in 1..Len(self.tw) |-> <<"t", i>>]

NonTrainableRefs(self) == [j \in 1..Len(self.ntw) |-> <<"n", j>>]

(* all_vars with the two lists in the other order. *)
all_vars_NonTrainableFirst(self) == NonTrainableRefs(self) \o TrainableRefs(self)

(* all_vars = self._trainable_weights + self._non_trainable_weights *)
all_vars(self) == TrainableRefs(self) \o NonTrainableRefs(self)

(* self.weights with the two lists in the other order. *)
weights_NonTrainableFirst(self) == NonTrainableRefs(self) \o TrainableRefs(self)

(* self.weights: the trainable weights, then the non-trainable ones. *)
weights(self) == TrainableRefs(self) \o NonTrainableRefs(self)

(* v.numpy() *)
numpy(self, ref) == IF ref[1] = "t" THEN self.tw[ref[2]] ELSE self.ntw[ref[2]]

IndexKeys(n) == {FormatInt(i - 1) : i \in 1..n}

KeyIndex(n, k) == CHOOSE i \in 1..n : FormatInt(i - 1) = k

(* for i, v in enumerate(refs): v.assign(store[f"{i}"]) *)
AssignEach(self, refs, store) ==
  LET slot(ref) == CHOOSE p \in 1..Len(refs) : refs[p] = ref
      listed(ref) == \E p \in 1..Len(refs) : refs[p] = ref
  IN [self EXCEPT
        !.tw = [i \in 1..Len(self.tw) |->
                  IF listed(<<"t", i>>)
                  THEN store[FormatInt(slot(<<"t", i>>) - 1)] ELSE self.tw[i]],
        !.ntw = [j \in 1..Len(self.ntw) |->
                  IF listed(<<"n", j>>)
                  THEN store[FormatInt(slot(<<"n", j>>) - 1)] ELSE self.ntw[j]]]

(* ---- save_own_variables / load_own_variables ---- *)

Layer_save_own_variables(self, store) ==
  LET av == all_vars(self)
  IN Update(store, [k \in IndexKeys(Len(av)) |->
                      numpy(self, av[KeyIndex(Len(av), k)])])

Layer_load_own_variables_raises(self, store) ==
  ~(IndexKeys(Len(all_vars(self))) \subseteq DOMAIN store)

Layer_load_own_variables(self, store) == AssignEach(self, all_vars(self), store)

LayerWithCustomVariables_save_own_variables(self, store) ==
  Put(Layer_save_own_variables(self, store),
      KeyVariables, self.attrs["stored_variables"])

LayerWithCustomVariables_load_own_variables_raises(self, store) ==
  \/ ~Has(self, "stored_variables")
  \/ KeyVariables \notin DOMAIN store
  \/ ~(IndexKeys(Len(weights(self))) \subseteq DOMAIN store)

(* load_own_variables that loads the weights and forgets the tf.Variable. *)
LayerWithCustomVariables_load_own_variables_WeightsOnly(self, store) ==
  AssignEach(self, weights(self), store)

LayerWithCustomVariables_load_own_variables(self, store) ==
  LET assigned == [self EXCEPT
                     !.attrs = Put(@, "stored_variables", store[KeyVariables])]
  IN AssignEach(assigned, weights(self), store)

(* ---- save_assets / load_assets ---- *)

LayerWithCustomAssets_save_assets(self, inner_path, fs, linesep) ==
  Put(fs, path_join(inner_path, VocabularyTxt),
      file_write(self.attrs["vocab"], linesep))

LayerWithCustomAssets_load_assets_raises(self, inner_path, fs) ==
  path_join(inner_path, VocabularyTxt) \notin DOMAIN fs

LayerWithCustomAssets_load_assets(self, inner_path, fs) ==
  [self EXCEPT !.attrs =
     Put(@, "vocab",
         str_replace(file_read(fs[path_join(inner_path, VocabularyTxt)]),
                     Unk, Little))]

(* ---- build / get_build_config / build_from_config ---- *)

(* Layer.build(input_shape), reached by super().build(input_shape). *)
Layer_build(self, input_shape) ==
  [Ran(self, "build") EXCEPT
     !.built = TRUE, !.attrs = Put(@, "_build_input_shape", input_shape)]

(* The inherited build of a Dense layer or of a model: the base build, and *)
(* the layer's own weights with the values tw0, ntw0 their initializers    *)
(* give.                                                                   *)
Default_build(self, input_shape, tw0, ntw0) ==
  [Layer_build(self, input_shape) EXCEPT !.tw = tw0, !.ntw = ntw0]

(* self.add_weight(..., trainable=True), bound to the attribute `name`. *)
add_weight(self, name, value) ==
  [self EXCEPT !.tw = Append(@, value),
               !.attrs = Put(@, name, Len(self.tw) + 1)]

LayerWithCustomBuild_build(self, input_shape, layer_init, w0, b0) ==
  LET s1 == Layer_build(self, input_shape)
      s2 == add_weight(s1, "w", w0)
      s3 == add_weight(s2, "b", b0)
  IN [s3 EXCEPT !.attrs = Put(@, "layer_init", layer_init)]

Layer_get_build_config(self) ==
  Put(EmptyDict, "input_shape", self.attrs["_build_input_shape"])

LayerWithCustomBuild_get_build_config(self) ==
  Update(Layer_get_build_config(self),
         Put(EmptyDict, "layer_init", self.attrs["layer_init"]))

Layer_build_from_config(self, config, tw0, ntw0) ==
  Default_build(Ran(self, "build_from_config"), config["input_shape"], tw0, ntw0)

LayerWithCustomBuild_build_from_config_raises(self, config) ==
  ~({"input_shape", "layer_init"} \subseteq DOMAIN config)

(* build_from_config that builds with a fixed initializer. *)
LayerWithCustomBuild_build_from_config_FixedInit(self, config, w0, b0) ==
  LayerWithCustomBuild_build(Ran(self, "build_from_config"),
                             config["input_shape"], "random_normal", w0, b0)

(* build_from_config that does not call build(). *)
LayerWithCustomBuild_build_from_config_NoBuild(self, config, w0, b0) ==
  Ran(self, "build_from_config")

LayerWithCustomBuild_build_from_config(self, config, w0, b0) ==
  LayerWithCustomBuild_build(Ran(self, "build_from_config"),
                             config["input_shape"], config["layer_init"], w0, b0)

(* call() of LayerWithCustomBuild reads self.w and self.b. *)
LayerWithCustomBuild_call_raises(self) == ~Has(self, "w") \/ ~Has(self, "b")

(* ---- compile / get_compile_config / compile_from_config ---- *)

Model_compile(self, optimizer, loss, metrics) ==
  [Ran(self, "compile") EXCEPT !.attrs =
     Update(@, [k \in {"optimizer", "loss", "metrics"} |->
                  IF k = "optimizer" THEN optimizer
                  ELSE IF k = "loss" THEN loss ELSE metrics])]

ModelWithCustomCompile_compile(self, optimizer, loss_fn, metrics) ==
  LET s1 == Model_compile(self, optimizer, loss_fn, metrics)
      s2 == [s1 EXCEPT !.attrs = Put(@, "model_optimizer", optimizer)]
      s3 == [s2 EXCEPT !.attrs = Put(@, "loss_fn", loss_fn)]
  IN [s3 EXCEPT !.attrs = Put(@, "loss_metrics", metrics)]

Model_get_compile_config(self) ==
  [k \in {"optimizer", "loss", "metrics"} |-> self.attrs[k]]

ModelWithCustomCompile_get_compile_config(self) ==
  [k \in {"model_optimizer", "loss_fn", "metric"} |->
     IF k = "model_optimizer" THEN self.attrs["model_optimizer"]
     ELSE IF k = "loss_fn" THEN self.attrs["loss_fn"]
     ELSE self.attrs["loss_metrics"]]

Model_compile_from_config_raises(self, config) ==
  ~({"optimizer", "loss", "metrics"} \subseteq DOMAIN config)

Model_compile_from_config(self, config) ==
  Model_compile(Ran(self, "compile_from_config"),
                deserialize_keras_object(config["optimizer"]),
                deserialize_keras_object(config["loss"]),
                deserialize_keras_object(config["metrics"]))

ModelWithCustomCompile_compile_from_config_raises(self, config) ==
  ~({"model_optimizer", "loss_fn", "metric"} \subseteq DOMAIN config)

(* compile_from_config that passes the saved loss on without deserializing. *)
ModelWithCustomCompile_compile_from_config_RawLoss(self, config) ==
  ModelWithCustomCompile_compile(Ran(self, "compile_from_config"),
                                 deserialize_keras_object(config["model_optimizer"]),
                                 config["loss_fn"],
                                 deserialize_keras_object(config["metric"]))

ModelWithCustomCompile_compile_from_config(self, config) ==
  LET optimizer == deserialize_keras_object(config["model_optimizer"])
      loss_fn == deserialize_keras_object(config["loss_fn"])
      metrics == deserialize_keras_object(config["metric"])
  IN ModelWithCustomCompile_compile(Ran(self, "compile_from_config"),
                                    optimizer, loss_fn, metrics)

-----------------------------------------------------------------------------
(* Method resolution: the class's override where the cell defines one, the *)
(* inherited method otherwise.                                             *)

get_build_config(cls, self) ==
  IF cls = "LayerWithCustomBuild"
  THEN LayerWithCustomBuild_get_build_config(self)
  ELSE Layer_get_build_config(self)

get_compile_config(cls, self) ==
  IF cls = "ModelWithCustomCompile"
  THEN ModelWithCustomCompile_get_compile_config(self)
  ELSE Model_get_compile_config(self)

save_own_variables(cls, self, store) ==
  IF cls = "LayerWithCustomVariables"
  THEN LayerWithCustomVariables_save_own_variables(self, store)
  ELSE Layer_save_own_variables(self, store)

save_assets(cls, self, inner_path, fs, linesep) ==
  IF cls = "LayerWithCustomAssets"
  THEN LayerWithCustomAssets_save_assets(self, inner_path, fs, linesep)
  ELSE fs

(* The directory of the archive that holds the assets of object o. *)
InnerPath(o) == <<"assets", o>>

(* x, the array the cell feeds its model, and the input each layer sees. *)
XShape(c) ==
  IF c = "custom_vars" THEN <<8, 10>>
  ELSE IF c = "custom_assets" THEN <<10, 10>>
  ELSE IF c = "custom_build" THEN <<16, 8>>
  ELSE <<4, 8>>

LayerInputShape(c, o) ==
  IF c = "custom_build" /\ o = "layer1" THEN <<16, 16>> ELSE XShape(c)

(* The values training may leave in the trainable weights of a layer. *)
TrainableValues(self) == [1..self.counts[1] -> Vals]

(* The values of the weights of a newly built layer: what its initializer  *)
(* gives, one draw v per build.                                            *)
InitialTrainable(self, v) == [i \in 1..self.counts[1] |-> v]

InitialNonTrainable(self, v) == [j \in 1..self.counts[2] |-> v]

Layers(c) == Objs(c) \ {"model"}

(* The first statement of each cell after the constructors. *)
FirstStep(c) ==
  IF c \in {"custom_vars", "custom_compile"} THEN "compile"
  ELSE IF c = "custom_assets" THEN "call"
  ELSE "build"

(* __init__ of each class, with the cell's arguments. *)
Construct(c, o, sv, counts, vocab) ==
  LET cls == Class(c, o)
  IN IF o \notin Objs(c) THEN Absent
     ELSE IF cls = "LayerWithCustomVariables"
       THEN NewObject(counts, Put(EmptyDict, "stored_variables", sv))
     ELSE IF cls = "LayerWithCustomAssets"
       THEN NewObject(counts, Put(EmptyDict, "vocab", vocab))
     ELSE IF cls = "LayerWithCustomBuild"
       THEN NewObject(NoCounts, Put(EmptyDict, "units", 16))
     ELSE IF cls = "Dense" THEN NewObject(DenseCounts, EmptyDict)
     ELSE NewObject(NoCounts, EmptyDict)

EmptyArchive ==
  [build |-> [o \in AllObjs |-> EmptyDict], compile |-> EmptyDict,
   store |-> [o \in AllObjs |-> EmptyDict], fs |-> EmptyDict]

Init ==
  /\ cell \in Cells
  /\ pc = FirstStep(cell)
  /\ \E sv \in Vals, counts \in WeightCounts, vocab \in VocabInputs :
       orig = [o \in AllObjs |-> Construct(cell, o, sv, counts, vocab)]
  /\ rest = [o \in AllObjs |-> Absent]
  /\ archive = EmptyArchive
  /\ stage = [o \in AllObjs |-> 0]
  /\ err = "none"

(* An exception ends the cell. *)
Raise(e) ==
  /\ pc' = "failed"
  /\ err' = e
  /\ UNCHANGED <<cell, orig, rest, archive, stage>>

-----------------------------------------------------------------------------
(* The statements of the cells before save. *)

(* custom_layer.build(input_shape=(8,), layer_init="random_normal") *)
ManualBuild ==
  /\ pc = "build"
  /\ \E input_shape \in InputShapes, layer_init \in InitializerNames,
        w0 \in Vals, b0 \in Vals :
       orig' = [orig EXCEPT !["layer0"] =
                  LayerWithCustomBuild_build(@, input_shape, layer_init, w0, b0)]
  /\ pc' = "call"
  /\ UNCHANGED <<cell, rest, archive, stage, err>>

(* model.compile(...) *)
Compile ==
  /\ pc = "compile"
  /\ IF Class(cell, "model") = "ModelWithCustomCompile"
     THEN \E optimizer \in Optimizers, loss_fn \in Losses, metrics \in MetricLists :
            orig' = [orig EXCEPT !["model"] =
                       ModelWithCustomCompile_compile(@, optimizer, loss_fn, metrics)]
     ELSE orig' = [orig EXCEPT !["model"] =
                     Model_compile(@, PlainStr("adam"),
                                   PlainStr("mean_squared_error"), List(<<>>))]
  /\ pc' = "fit"
  /\ UNCHANGED <<cell, rest, archive, stage, err>>

(* What the first call of the model does to one of its layers: build it if *)
(* it is not built, then run its call().                                   *)
CallLayer(cls, self, input_shape, tw0, ntw0) ==
  Ran(IF self.built THEN self ELSE Default_build(self, input_shape, tw0, ntw0),
      "call")

(* The exception the first call raises in a layer, "none" if none: the     *)
(* framework builds with build(input_shape), which LayerWithCustomBuild's  *)
(* build(input_shape, layer_init) does not accept.                         *)
CallLayerError(cls, self) ==
  IF cls # "LayerWithCustomBuild" THEN "none"
  ELSE IF ~self.built THEN "TypeError"
  ELSE IF LayerWithCustomBuild_call_raises(self) THEN "AttributeError"
  ELSE "none"

CallModel(c, objs, init) ==
  [o \in AllObjs |->
     IF o \notin Objs(c) THEN objs[o]
     ELSE IF IsModel(o)
       THEN Ran(IF objs[o].built THEN objs[o]
                ELSE Default_build(objs[o], XShape(c), <<>>, <<>>), "call")
     ELSE CallLayer(Class(c, o), objs[o], LayerInputShape(c, o),
                    InitialTrainable(objs[o], init[o]),
                    InitialNonTrainable(objs[o], init[o]))]

(* The layers are called in order: the first exception is the one raised. *)
FirstError(c, objs) ==
  IF CallLayerError(Class(c, "layer0"), objs["layer0"]) # "none"
  THEN CallLayerError(Class(c, "layer0"), objs["layer0"])
  ELSE IF "layer1" \in Objs(c)
  THEN CallLayerError(Class(c, "layer1"), objs["layer1"])
  ELSE "none"

(* One choice of values for each layer, as a table indexed by object. *)
PerLayer(v0, v1) ==
  [o \in AllObjs |-> IF o = "layer0" THEN v0 ELSE v1]

(* y = model(x) *)
Call ==
  /\ pc = "call"
  /\ IF FirstError(cell, orig) # "none"
     THEN Raise(FirstError(cell, orig))
     ELSE /\ \E v0 \in Vals, v1 \in Vals :
               orig' = CallModel(cell, orig, PerLayer(v0, v1))
          /\ pc' = "save"
          /\ UNCHANGED <<cell, rest, archive, stage, err>>

(* One training run: every trainable weight, and the tf.Variable that      *)
(* LayerWithCustomVariables.call() multiplies by, may end at any value.    *)
Train(cls, self, tw1, sv1) ==
  [self EXCEPT
     !.tw = tw1,
     !.attrs = IF cls = "LayerWithCustomVariables"
               THEN Put(@, "stored_variables", sv1) ELSE @]

(* model.fit(x, y): the first call builds the layers, training then moves  *)
(* the trainable values.                                                   *)
Fit ==
  /\ pc = "fit"
  /\ IF ~Has(orig["model"], "optimizer")
     THEN Raise("RuntimeError")
     ELSE IF FirstError(cell, orig) # "none"
     THEN Raise(FirstError(cell, orig))
     ELSE /\ \E v0 \in Vals, v1 \in Vals,
                t0 \in TrainableValues(orig["layer0"]),
                t1 \in TrainableValues(orig["layer1"]),
                sv1 \in Vals :
               LET called == CallModel(cell, orig, PerLayer(v0, v1))
               IN orig' = [o \in AllObjs |->
                             IF o \in Layers(cell)
                             THEN Train(Class(cell, o), called[o],
                                        PerLayer(t0, t1)[o], sv1)
                             ELSE called[o]]
          /\ pc' = "save"
          /\ UNCHANGED <<cell, rest, archive, stage, err>>

-----------------------------------------------------------------------------
(* model.save(path): every object's save-side hooks fill the archive. *)

SavedBuildConfig(c, o, objs) ==
  IF o \in Objs(c) /\ objs[o].built
  THEN get_build_config(Class(c, o), objs[o]) ELSE EmptyDict

(* The compile configuration is serialized when it is saved. *)
SavedCompileConfig(c, objs) ==
  IF Has(objs["model"], "optimizer")
  THEN serialize_dict(get_compile_config(Class(c, "model"), objs["model"]))
  ELSE EmptyDict

SavedStore(c, o, objs) ==
  IF o \in Objs(c)
  THEN save_own_variables(Class(c, o), objs[o], EmptyDict) ELSE EmptyDict

SavedAssets(c, objs, linesep) ==
  LET f0 == save_assets(Class(c, "model"), objs["model"], InnerPath("model"),
                        EmptyDict, linesep)
      f1 == save_assets(Class(c, "layer0"), objs["layer0"], InnerPath("layer0"),
                        f0, linesep)
  IN save_assets(Class(c, "layer1"), objs["layer1"], InnerPath("layer1"),
                 f1, linesep)

Save ==
  /\ pc = "save"
  /\ \E linesep \in LineSeps :
       archive' = [build |-> [o \in AllObjs |-> SavedBuildConfig(cell, o, orig)],
                   compile |-> SavedCompileConfig(cell, orig),
                   store |-> [o \in AllObjs |-> SavedStore(cell, o, orig)],
                   fs |-> SavedAssets(cell, orig, linesep)]
  /\ pc' = "load"
  /\ UNCHANGED <<cell, orig, rest, stage, err>>

-----------------------------------------------------------------------------
(* keras.models.load_model(path) *)

(* The hooks with the assets loaded before the variables. *)
HookOrder_AssetsFirst ==
  <<"build_from_config", "compile_from_config", "load_assets", "load_own_variables">>

(* The load-side hooks, in the order in which they are executed. *)
HookOrder ==
  <<"build_from_config", "compile_from_config", "load_own_variables", "load_assets">>

(* A hook runs on the objects that have it and have something saved for it. *)
Applies(h, o) ==
  IF h = "build_from_config" THEN DOMAIN archive.build[o] # {}
  ELSE IF h = "compile_from_config" THEN IsModel(o) /\ DOMAIN archive.compile # {}
  ELSE TRUE

Hooks(o) == SelectSeq(HookOrder, LAMBDA h : Applies(h, o))

Pending(o, h) ==
  /\ pc = "loading"
  /\ o \in Objs(cell)
  /\ stage[o] \in 1..Len(Hooks(o))
  /\ Hooks(o)[stage[o]] = h

(* The objects are created again from their configs: __init__ runs with    *)
(* the arguments get_config() returned, so a tf.Variable made in __init__  *)
(* starts at a new random value and vocab, which get_config() does not     *)
(* return, at its default None.                                            *)
Reconstruct(c, o, objs, sv) ==
  LET cls == Class(c, o)
  IN IF o \notin Objs(c) THEN Absent
     ELSE IF cls = "LayerWithCustomVariables"
       THEN NewObject(objs[o].counts, Put(EmptyDict, "stored_variables", sv))
     ELSE IF cls = "LayerWithCustomAssets"
       THEN NewObject(objs[o].counts, Put(EmptyDict, "vocab", NoneVocab))
     ELSE IF cls = "LayerWithCustomBuild"
       THEN NewObject(NoCounts, Put(EmptyDict, "units", objs[o].attrs["units"]))
     ELSE NewObject(objs[o].counts, EmptyDict)

LoadBegin ==
  /\ pc = "load"
  /\ \E sv \in Vals :
       rest' = [o \in AllObjs |-> Reconstruct(cell, o, orig, sv)]
  /\ stage' = [o \in AllObjs |-> IF o \in Objs(cell) THEN 1 ELSE 0]
  /\ pc' = "loading"
  /\ UNCHANGED <<cell, orig, archive, err>>

Advance(o) == stage' = [stage EXCEPT ![o] = @ + 1]

BuildFromConfig(o) ==
  /\ Pending(o, "build_from_config")
  /\ IF Class(cell, o) = "LayerWithCustomBuild"
     THEN IF LayerWithCustomBuild_build_from_config_raises(rest[o], archive.build[o])
          THEN Raise("KeyError")
          ELSE /\ \E w0 \in Vals, b0 \in Vals :
                    rest' = [rest EXCEPT ![o] =
                      LayerWithCustomBuild_build_from_config(@, archive.build[o], w0, b0)]
               /\ Advance(o)
               /\ UNCHANGED <<cell, pc, orig, archive, err>>
     ELSE /\ \E v \in Vals :
               rest' = [rest EXCEPT ![o] =
                 Layer_build_from_config(@, archive.build[o],
                                         InitialTrainable(@, v),
                                         InitialNonTrainable(@, v))]
          /\ Advance(o)
          /\ UNCHANGED <<cell, pc, orig, archive, err>>

CompileFromConfig(o) ==
  /\ Pending(o, "compile_from_config")
  /\ IF Class(cell, o) = "ModelWithCustomCompile"
     THEN IF ModelWithCustomCompile_compile_from_config_raises(rest[o], archive.compile)
          THEN Raise("KeyError")
          ELSE /\ rest' = [rest EXCEPT ![o] =
                    ModelWithCustomCompile_compile_from_config(@, archive.compile)]
               /\ Advance(o)
               /\ UNCHANGED <<cell, pc, orig, archive, err>>
     ELSE IF Model_compile_from_config_raises(rest[o], archive.compile)
          THEN Raise("KeyError")
          ELSE /\ rest' = [rest EXCEPT ![o] =
                    Model_compile_from_config(@, archive.compile)]
               /\ Advance(o)
               /\ UNCHANGED <<cell, pc, orig, archive, err>>

LoadOwnVariables(o) ==
  /\ Pending(o, "load_own_variables")
  /\ IF Class(cell, o) = "LayerWithCustomVariables"
     THEN IF LayerWithCustomVariables_load_own_variables_raises(rest[o], archive.store[o])
          THEN Raise("KeyError")
          ELSE /\ rest' = [rest EXCEPT ![o] =
                    Ran(LayerWithCustomVariables_load_own_variables(@, archive.store[o]),
                        "load_own_variables")]
               /\ Advance(o)
               /\ UNCHANGED <<cell, pc, orig, archive, err>>
     ELSE IF Layer_load_own_variables_raises(rest[o], archive.store[o])
          THEN Raise("KeyError")
          ELSE /\ rest' = [rest EXCEPT ![o] =
                    Ran(Layer_load_own_variables(@, archive.store[o]),
                        "load_own_variables")]
               /\ Advance(o)
               /\ UNCHANGED <<cell, pc, orig, archive, err>>

LoadAssets(o) ==
  /\ Pending(o, "load_assets")
  /\ IF Class(cell, o) = "LayerWithCustomAssets"
     THEN IF LayerWithCustomAssets_load_assets_raises(rest[o], InnerPath(o), archive.fs)
          THEN Raise("FileNotFoundError")
          ELSE /\ rest' = [rest EXCEPT ![o] =
                    Ran(LayerWithCustomAssets_load_assets(@, InnerPath(o), archive.fs),
                        "load_assets")]
               /\ Advance(o)
               /\ UNCHANGED <<cell, pc, orig, archive, err>>
     ELSE /\ rest' = [rest EXCEPT ![o] = Ran(@, "load_assets")]
          /\ Advance(o)
          /\ UNCHANGED <<cell, pc, orig, archive, err>>

(* load_model returns once every hook of every object has run. *)
LoadEnd ==
  /\ pc = "loading"
  /\ \A o \in Objs(cell) : stage[o] > Len(Hooks(o))
  /\ pc' = "done"
  /\ UNCHANGED <<cell, orig, rest, archive, stage, err>>

Next ==
  \/ ManualBuild
  \/ Compile
  \/ Call
  \/ Fit
  \/ Save
  \/ LoadBegin
  \/ \E o \in AllObjs : BuildFromConfig(o)
  \/ \E o \in AllObjs : CompileFromConfig(o)
  \/ \E o \in AllObjs : LoadOwnVariables(o)
  \/ \E o \in AllObjs : LoadAssets(o)
  \/ LoadEnd

Spec == Init /\ [][Next]_vars

-----------------------------------------------------------------------------
(* Properties. *)

Saved == pc \in {"load", "loading", "done"}

RanOn(self, method) == \E i \in 1..Len(self.hist) : self.hist[i] = method

(* The decimal string of a position below ten, read off the digit table. *)
DecimalKey(n) == <<Digits[n + 1]>>

(* The values of the weights, trainable first, then non-trainable. *)
TrainableFirst(self) == self.tw \o self.ntw

Occurrences(text, pat) ==
  {i \in 1..(Len(text) - Len(pat) + 1) : SubSeq(text, i, i + Len(pat) - 1) = pat}

(* The position of a load-side hook in the order the guide states. *)
StatedRank(h) ==
  IF h = "build_from_config" THEN 1
  ELSE IF h = "compile_from_config" THEN 2
  ELSE IF h = "load_own_variables" THEN 3
  ELSE IF h = "load_assets" THEN 4
  ELSE 0

C2_StoredVariablesRoundTrip ==
  cell = "custom_vars" =>
    /\ err = "none"
    /\ Saved => /\ KeyVariables \in DOMAIN archive.store["layer0"]
                /\ archive.store["layer0"][KeyVariables]
                     = orig["layer0"].attrs["stored_variables"]
    /\ RanOn(rest["layer0"], "load_own_variables") =>
         rest["layer0"].attrs["stored_variables"]
           = orig["layer0"].attrs["stored_variables"]

C2_Witness ==
  /\ cell = "custom_vars"
  /\ pc = "done"
  /\ RanOn(orig["model"], "call")
  /\ rest["layer0"].attrs["stored_variables"] = MaxVal

VocabRoundTripWithoutCarriageReturn ==
  cell = "custom_assets" =>
    /\ err = "none"
    /\ Saved => DOMAIN archive.fs = {<<"assets", "layer0", "vocabulary.txt">>}
    /\ RanOn(rest["layer0"], "load_assets") =>
         LET v == orig["layer0"].attrs["vocab"]
             r == rest["layer0"].attrs["vocab"]
         IN /\ Occurrences(r, Unk) = {}
            /\ Occurrences(v, <<CR>>) = {} =>
                 /\ r = str_replace(v, Unk, Little)
                 /\ Len(r) = Len(v) + Cardinality(Occurrences(v, Unk))
                 /\ (v = MaryUnk => r = MaryLittle)
                 /\ (Occurrences(v, Unk) = {} => r = v)

(* C4: the saved build config of the LayerWithCustomBuild is the default   *)
(* one (input_shape) plus the key "layer_init"; when load_model has        *)
(* returned, the restored layer was built with exactly those two values,   *)
(* its layer_init is the one given to the original build, and the restored *)
(* model is built.                                                         *)
C4_BuildConfigRoundTrip ==
  cell = "custom_build" =>
    /\ err = "none"
    /\ Saved =>
         /\ DOMAIN archive.build["layer0"] = {"input_shape", "layer_init"}
         /\ archive.build["layer0"]["input_shape"]
              = Layer_get_build_config(orig["layer0"])["input_shape"]
         /\ archive.build["layer0"]["layer_init"] = orig["layer0"].attrs["layer_init"]
    /\ RanOn(rest["layer0"], "build_from_config") =>
         /\ rest["layer0"].attrs["layer_init"] = archive.build["layer0"]["layer_init"]
         /\ rest["layer0"].attrs["_build_input_shape"]
              = archive.build["layer0"]["input_shape"]
    /\ pc = "done" =>
         /\ rest["layer0"].attrs["layer_init"] = orig["layer0"].attrs["layer_init"]
         /\ rest["layer0"].built
         /\ rest["model"].built

C4_Witness ==
  /\ cell = "custom_build"
  /\ pc = "done"
  /\ rest["layer0"].attrs["layer_init"] = "zeros"
  /\ rest["model"].built

(* C5: the saved compile config of ModelWithCustomCompile has exactly the  *)
(* keys "model_optimizer", "loss_fn", "metric", holding the serialized     *)
(* optimizer, loss and metrics; when load_model has returned, the restored *)
(* model's model_optimizer, loss_fn and loss_metrics equal the original's, *)
(* and compile ran on it after compile_from_config.                        *)
C5_CompileConfigRoundTrip ==
  cell = "custom_compile" =>
    /\ err = "none"
    /\ Saved =>
         /\ DOMAIN archive.compile = {"model_optimizer", "loss_fn", "metric"}
         /\ archive.compile["model_optimizer"]
              = serialize_keras_object(orig["model"].attrs["model_optimizer"])
         /\ archive.compile["loss_fn"]
              = serialize_keras_object(orig["model"].attrs["loss_fn"])
         /\ archive.compile["metric"]
              = serialize_keras_object(orig["model"].attrs["loss_metrics"])
    /\ pc = "done" =>
         /\ \A k \in {"model_optimizer", "loss_fn", "loss_metrics"} :
              /\ Has(rest["model"], k)
              /\ rest["model"].attrs[k] = orig["model"].attrs[k]
         /\ \E i, j \in 1..Len(rest["model"].hist) :
              /\ i < j
              /\ rest["model"].hist[i] = "compile_from_config"
              /\ rest["model"].hist[j] = "compile"

C5_Witness ==
  /\ cell = "custom_compile"
  /\ pc = "done"
  /\ rest["model"].attrs["model_optimizer"] = PlainStr("SGD")
  /\ rest["model"].attrs["loss_fn"] = Fn("small_square_sum_loss")
  /\ rest["model"].attrs["loss_metrics"]
       = List(<<PlainStr("accuracy"), Fn("mean_pred")>>)

(* C6: after save, the store of every object holds each of its weights,    *)
(* trainable first and then non-trainable, under the decimal string of its *)
(* position; an object with the default save_own_variables has no other    *)
(* key, a LayerWithCustomVariables has exactly one more, "variables",      *)
(* which is none of the indexed keys.                                      *)
C6_StoreKeys ==
  Saved =>
    \A o \in Objs(cell) :
      LET all == TrainableFirst(orig[o])
          indexed == {DecimalKey(i - 1) : i \in 1..Len(all)}
          store == archive.store[o]
      IN /\ indexed \subseteq DOMAIN store
         /\ \A i \in 1..Len(all) : store[DecimalKey(i - 1)] = all[i]
         /\ KeyVariables \notin indexed
         /\ IF Class(cell, o) = "LayerWithCustomVariables"
            THEN DOMAIN store = indexed \cup {KeyVariables}
            ELSE DOMAIN store = indexed

C6_Witness ==
  /\ cell = "custom_vars"
  /\ Saved
  /\ Len(orig["layer0"].tw) = 2
  /\ Len(orig["layer0"].ntw) = 1
  /\ orig["layer0"].tw[2] # orig["layer0"].ntw[1]
  /\ Cardinality(DOMAIN archive.store["layer0"]) = 4

(* C7: once load_own_variables has run on the restored                     *)
(* LayerWithCustomVariables, the weight at every position, trainable first *)
(* and then non-trainable, holds the value saved under the decimal string  *)
(* of that position, which is the original weight's value at that          *)
(* position.                                                               *)
C7_WeightsLoadedInSavedOrder ==
  (cell = "custom_vars" /\ RanOn(rest["layer0"], "load_own_variables")) =>
    LET restored == TrainableFirst(rest["layer0"])
        original == TrainableFirst(orig["layer0"])
    IN /\ Len(restored) = Len(original)
       /\ Len(rest["layer0"].tw) = Len(orig["layer0"].tw)
       /\ \A i \in 1..Len(restored) :
            /\ restored[i] = archive.store["layer0"][DecimalKey(i - 1)]
            /\ restored[i] = original[i]

C7_Witness ==
  /\ cell = "custom_vars"
  /\ pc = "done"
  /\ Len(rest["layer0"].tw) = 2
  /\ Len(rest["layer0"].ntw) = 1
  /\ rest["layer0"].tw[1] # rest["layer0"].ntw[1]
  /\ rest["layer0"].tw[1] # rest["layer0"].tw[2]

(* C8: on a LayerWithCustomBuild, original or restored, build has run      *)
(* before call() and before load_own_variables, and from then on w, b and  *)
(* layer_init exist; no read of a missing attribute and no build without   *)
(* layer_init ever happens.                                                *)
C8_BuildBeforeUse ==
  /\ err \notin {"AttributeError", "TypeError"}
  /\ cell = "custom_build" =>
       \A self \in {orig["layer0"], rest["layer0"]} :
         /\ \A i \in 1..Len(self.hist) :
              self.hist[i] \in {"call", "load_own_variables"} =>
                \E j \in 1..(i - 1) : self.hist[j] = "build"
         /\ RanOn(self, "build") =>
              (Has(self, "w") /\ Has(self, "b") /\ Has(self, "layer_init")
                 /\ self.built /\ Len(self.tw) = 2)

C8_Witness ==
  /\ cell = "custom_build"
  /\ pc = "done"
  /\ RanOn(orig["layer0"], "call")
  /\ RanOn(rest["layer0"], "load_own_variables")
  /\ Has(rest["layer0"], "w")

====
